---- MODULE Spec2Model ----
(***************************************************************************)
(* ServeMe.hpp: HttpServer (registry, accept loop), HttpSession (one       *)
(* request/response exchange per connection), the method-keyed response    *)
(* cache, the response templates and the response resolver.                *)
(*                                                                         *)
(* Strings are sequences of characters; the fixed header literals of the   *)
(* response templates are kept as single elements, so that a response is   *)
(* the concatenation the template builds and equality of two responses is  *)
(* equality byte for byte.  One step of the model is one call of the       *)
(* public API or one completion handler run by the io_context.             *)
(***************************************************************************)
EXTENDS Naturals, Sequences, FiniteSets, Bags, TLC

\* ------------------------------------------------------------------ bounds
MaxSessions == 2    \* connections open at the same time

\* -------------------------------------------------------------- data domain
Paths == {"/a", "/b"}                 \* paths that get registered
RegMethods == {"GET", "POST"}         \* method strings given to AddEndpoint

filePrefix == <<"@", "f", "i", "l", "e", ":">>
FileName == <<"f">>
SrcA == <<"A">>
SrcFile == filePrefix \o FileName
Sources == {SrcA, SrcFile}

\* the AddEndpoint calls an application makes: "/a" with either source, "/b"
\* file-backed, each under either method
Registrations ==
    {<<"/a", r, m>> : r \in Sources, m \in RegMethods}
        \cup {<<"/b", SrcFile, m>> : m \in RegMethods}

NoFile == [open |-> FALSE, content |-> <<>>]      \* the file cannot be opened
LongContent == <<"<", "p", ">", "h", "e", "l", "l", "o", "<", "/", "p", ">">>
FileStates == {NoFile, [open |-> TRUE, content |-> LongContent]}

Garbage == <<"freed">>                \* bytes read from a destroyed string

VARIABLES
    endpoints_,     \* HttpServer::endpoints_: path -> [response, method]
    cache,          \* RESTAPIAPP::cache: method token -> rendered response
    enable_cache,   \* HttpServer::enable_cache (const)
    files,          \* the file system: file name -> [open, content]
    sessions,       \* the HttpSession objects alive (a bag: they have no identity)
    acceptOps,      \* async_accept operations outstanding on acceptor_
    phase,          \* "threw" (the constructor left by an exception, there is no
                    \* object), "constructed", "running" (inside
                    \* io_context.run()), "stopped"
    last,           \* the completion handler the last step ran, its error code, and
                    \* the session as the handler left it
    logged,         \* the lines the last step handed to Logger::log
    latest,         \* path -> arguments of the last AddEndpoint for it
    overwritten,    \* the paths some AddEndpoint gave a different registration
    cacheTouched,   \* cache.find / operator[] / insert was ever called
    wire            \* the bytes the write completed by the last step delivered

vars == <<endpoints_, cache, enable_cache, files, sessions, acceptOps, phase,
          last, logged, latest, overwritten, cacheTouched, wire>>

\* ------------------------------------------------------------------ helpers
Min(a, b) == IF a < b THEN a ELSE b

EmptyMap == <<>>

\* one object of the bag changes state
Replace(bag, old, new) == (bag (-) SetToBag({old})) (+) SetToBag({new})

\* std::string::substr(pos, n), pos counted from 0
substr(str, pos, n) == SubSeq(str, pos + 1, Min(Len(str), pos + n))

\* std::string::substr(pos)
suffix(str, pos) == SubSeq(str, pos + 1, Len(str))

DigitChar(d) == <<"0", "1", "2", "3", "4", "5", "6", "7", "8", "9">>[d + 1]

\* std::to_string of an unsigned length
RECURSIVE to_string(_)
to_string(n) == IF n < 10 THEN <<DigitChar(n)>>
                ELSE to_string(n \div 10) \o <<DigitChar(n % 10)>>

\* ------------------------------------------------------- response templates
OK(body, content_type) ==
    <<"HTTP/1.1 200 OK\r\n", "Content-Length: ">> \o to_string(Len(body))
        \o <<"\r\n", "Content-Type: ">> \o content_type \o <<"\r\n\r\n">> \o body

DefaultContentType == <<"text/html">>

NotFoundBody == <<"4", "0", "4", " ", "N", "o", "t", " ", "F", "o", "u", "n", "d", "!">>

NOT_OK(body) ==
    <<"HTTP/1.1 404 Not Found\r\n", "Content-Length: ", "1", "4", "\r\n\r\n">> \o body

\* -------------------------------------------------------- response resolver
\* a resolver that answers a file it cannot open with the not-found body
readFileIntoStringNotFound(filename, fs) ==
    IF filename \notin DOMAIN fs \/ ~fs[filename].open
    THEN [content |-> NotFoundBody, log |-> <<<<"Error", "Can not open file">>>>]
    ELSE [content |-> fs[filename].content, log |-> <<>>]

\* the content, or "" with an Error logged when the file cannot be opened
readFileIntoString(filename, fs) ==
    IF filename \notin DOMAIN fs \/ ~fs[filename].open
    THEN [content |-> <<>>, log |-> <<<<"Error", "Can not open file">>>>]
    ELSE [content |-> fs[filename].content, log |-> <<>>]

\* a resolver that reads the file once, when nothing has been written to it yet
getBodyAtRegistration(str, fs) ==
    IF substr(str, 0, Len(filePrefix)) = filePrefix
    THEN readFileIntoString(suffix(str, Len(filePrefix)), [f \in DOMAIN fs |-> NoFile])
    ELSE [content |-> str, log |-> <<>>]

getBody(str, fs) ==
    IF substr(str, 0, Len(filePrefix)) = filePrefix
    THEN readFileIntoString(suffix(str, Len(filePrefix)), fs)
    ELSE [content |-> str, log |-> <<>>]

\* ------------------------------------------------------------------- methods
\* method == "GET" ? Method::GET : Method::POST
ToMethod(method) == IF method = "GET" THEN "GET" ELSE "POST"

\* a registry filled with insert(): the first registration of a path stays
addEndpointKeepFirst(eps, path, response, method) ==
    IF path \in DOMAIN eps THEN eps
    ELSE [p \in DOMAIN eps \cup {path} |->
            IF p = path THEN [response |-> response, method |-> method] ELSE eps[p]]

\* endpoints_[path] = std::make_pair(response, method)
addEndpoint(eps, path, response, method) ==
    [p \in DOMAIN eps \cup {path} |->
        IF p = path THEN [response |-> response, method |-> method] ELSE eps[p]]

\* -------------------------------------------------------------- request line
IsSpace(c) == c \in {" ", "\r", "\t"}

NotSpace(c) == ~IsSpace(c)

\* iss >> method >> path >> version: the k-th whitespace-separated word, or ""
Word(line, k) ==
    LET words == SelectSeq(line, NotSpace)
    IN  IF k <= Len(words) THEN words[k] ELSE ""

\* the first lines peers send: the supported methods with every registrable
\* path, another token, a path nobody registers, and a line without version
RequestLines ==
    {<<m, " ", p, " ", "HTTP/1.1", "\r">> : m \in RegMethods, p \in Paths}
        \cup {<<"PUT", " ", "/a", " ", "HTTP/1.1", "\r">>,
              <<"GET", " ", "/x", " ", "HTTP/1.1", "\r">>,
              <<"GET", " ", "/a", "\r">>}

\* ------------------------------------------------------------------- sessions
NewSession ==
    [st |-> "AwaitingRequestLine", method |-> "", path |-> "", branch |-> "none",
     response |-> <<>>, buffer |-> "none",
     reads |-> 0, writes |-> 0, shutdown |-> FALSE,
     tracked |-> FALSE]   \* not a field of the code: the session an observer follows

\* HttpSession::do_read: one async_read_until is issued
do_read(sess) == [sess EXCEPT !.reads = @ + 1, !.st = "AwaitingRequestLine"]

\* HttpSession::start
start(sess) == do_read(sess)

\* a write that goes back to reading the request line
do_writeAndReread(sess, response, owner) ==
    [sess EXCEPT !.writes = @ + 1, !.st = "AwaitingRequestLine",
                 !.response = response, !.buffer = owner]

\* HttpSession::do_write: one async_write is issued on boost::asio::buffer(response),
\* a view of the caller's string: owner names where that string lives
do_write(sess, response, owner) ==
    [sess EXCEPT !.writes = @ + 1, !.st = "Responding",
                 !.response = response, !.buffer = owner]

\* std::unordered_map::insert: an existing key keeps its value
insert(c, key, value) ==
    IF key \in DOMAIN c THEN c
    ELSE [k \in DOMAIN c \cup {key} |-> IF k = key THEN value ELSE c[k]]

\* it != endpoints_.end() && (method == "GET" ? GET : POST) == it->second.second
Matches(eps, method, path) ==
    path \in DOMAIN eps /\ ToMethod(method) = eps[path].method

\* a lookup under a key the insert never stores: it never finds anything
CacheMiss(enabled, c, method) == FALSE

\* a lookup that passes over an entry with an empty body
CacheHitNonEmpty(enabled, c, method) ==
    enabled /\ method \in DOMAIN c /\ c[method] # OK(<<>>, DefaultContentType)

\* enable_cache && cache.find(method) != cache.end()
CacheHit(enabled, c, method) == enabled /\ method \in DOMAIN c

\* an insert that forgets the enable_cache flag
CachePutAlways(enabled, c, method, response) == insert(c, method, response)

\* an insert whose update is lost
CachePutLost(enabled, c, method, response) == c

\* if (enable_cache) cache.insert(std::make_pair(method, response))
CachePut(enabled, c, method, response) ==
    IF enabled THEN insert(c, method, response) ELSE c

\* the success branch of the read handler: the session after it, the cache after
\* it, whether the cache was consulted, and the lines it logs
Route(sess, eps, c, enabled, fs, line) ==
    LET method == Word(line, 1)
        path == Word(line, 2)
        req == [sess EXCEPT !.method = method, !.path = path]
    IN  IF Matches(eps, method, path)
        THEN IF CacheHit(enabled, c, method)
             THEN [sess |-> do_write([req EXCEPT !.branch = "cached"], c[method], "cache"),
                   cache |-> c,
                   touched |-> TRUE,
                   log |-> <<<<"Info", "responsing">>>>]
             ELSE LET body == getBody(eps[path].response, fs)
                      response == OK(body.content, DefaultContentType)
                  IN  [sess |-> do_write([req EXCEPT !.branch = "fresh"], response, "local"),
                       cache |-> CachePut(enabled, c, method, response),
                       touched |-> enabled,
                       log |-> body.log \o <<<<"Info", "responsing">>>>]
        ELSE [sess |-> do_write([req EXCEPT !.branch = "notfound"],
                                NOT_OK(NotFoundBody), "temporary"),
              cache |-> c,
              touched |-> FALSE,
              log |-> <<<<"Error", "No endpoint">>>>]

\* the last handler holding `self` returns: the session object is destroyed and
\* its socket closed by the destructor
Release(sess) == [sess EXCEPT !.st = "Closed"]

\* socket_.shutdown(shutdown_both, ignored_ec)
shutdown_both(sess) == [sess EXCEPT !.shutdown = TRUE]

\* what async_write delivers from a buffer that views a string owned by the cache
\* (alive, never modified) or by a local or temporary that is destroyed when the
\* read handler returns, before the write completes: the bytes read from it after
\* that are whatever the freed memory holds
Sent(sess, c) ==
    IF sess.buffer = "cache" THEN {c[sess.method]}
    ELSE {sess.response, Garbage}

\* HttpServer::do_accept: one async_accept is issued
do_accept(n) == n + 1

\* a stop that only closes the acceptor: the handlers of open sessions still run
DispatchingAfterStop(ph) == ph # "constructed"

\* io_context.run() dispatches completion handlers until io_context.stop()
Dispatching(ph) == ph = "running"

\* what the connection has seen of a session
View(sess) == [st |-> sess.st, reads |-> sess.reads, writes |-> sess.writes,
               shutdown |-> sess.shutdown]

NoHandler == [op |-> "none", ok |-> TRUE, sess |-> View(NewSession)]

\* HttpServer::HttpServer, a function-try-block: when binding the acceptor
\* throws, the handler logs at Critical and, reaching its end, rethrows; else
\* the body issues the first accept
HttpServerCtor(bindOk) ==
    IF bindOk
    THEN [thrown |-> FALSE, acceptOps |-> do_accept(0), log |-> <<>>]
    ELSE [thrown |-> TRUE, acceptOps |-> 0,
          log |-> <<<<"Critical", "Failed to create HttpServer object">>>>]

\* RESTAPIAPP::RESTAPIAPP, a function-try-block around the construction of the
\* server: its handler writes to std::cerr and rethrows
RESTAPIAPPCtor(bindOk) ==
    LET server == HttpServerCtor(bindOk)
    IN  IF server.thrown
        THEN [server EXCEPT !.log = @ \o <<<<"cerr", "Failed to build RESTAPIAPP object">>>>]
        ELSE server

\* ----------------------------------------------------------------------- Init
Init ==
    /\ endpoints_ = EmptyMap
    /\ cache = EmptyMap
    /\ enable_cache \in BOOLEAN
    /\ files = [f \in {FileName} |-> NoFile]
    /\ sessions = EmptyBag
    /\ \E bindOk \in BOOLEAN :
          LET app == RESTAPIAPPCtor(bindOk)
          IN  /\ acceptOps = app.acceptOps
              /\ phase = IF app.thrown THEN "threw" ELSE "constructed"
              /\ logged = app.log
    /\ last = NoHandler
    /\ latest = EmptyMap
    /\ overwritten = {}
    /\ cacheTouched = FALSE
    /\ wire = <<>>

\* -------------------------------------------------------------------- actions
\* RESTAPIAPP::AddEndpoint -> HttpServer::addEndpoint, called by the thread that
\* goes on to call RunServer
AddEndpoint(path, response, method) ==
    /\ phase = "constructed"
    /\ endpoints_' = addEndpoint(endpoints_, path, response, ToMethod(method))
    /\ latest' = [p \in DOMAIN latest \cup {path} |->
                    IF p = path THEN [response |-> response, method |-> method]
                    ELSE latest[p]]
    /\ overwritten' =
          IF path \in DOMAIN latest
               /\ latest[path] # [response |-> response, method |-> method]
          THEN overwritten \cup {path} ELSE overwritten
    /\ last' = NoHandler
    /\ logged' = <<>>
    /\ wire' = <<>>
    /\ UNCHANGED <<cache, enable_cache, files, sessions, acceptOps, phase,
                   cacheTouched>>

\* an accept handler that re-arms in its success branch only
AcceptHandlerRearmOnSuccess(ok) ==
    /\ Dispatching(phase)
    /\ acceptOps > 0
    /\ IF ok
       THEN /\ BagCardinality(sessions) < MaxSessions
            /\ sessions' = sessions (+) SetToBag({start(NewSession)})
            /\ last' = [op |-> "accept", ok |-> TRUE, sess |-> View(start(NewSession))]
            /\ logged' = <<>>
            /\ acceptOps' = do_accept(acceptOps - 1)
       ELSE /\ sessions' = sessions
            /\ last' = [op |-> "accept", ok |-> FALSE, sess |-> View(NewSession)]
            /\ logged' = <<<<"Error", "do_accept">>>>
            /\ acceptOps' = acceptOps - 1
    /\ wire' = <<>>
    /\ UNCHANGED <<endpoints_, cache, enable_cache, files, phase, latest,
                   overwritten, cacheTouched>>

\* the completion handler of async_accept (HttpServer::do_accept)
AcceptHandler(ok) ==
    /\ Dispatching(phase)
    /\ acceptOps > 0
    /\ IF ok
       THEN /\ BagCardinality(sessions) < MaxSessions
            /\ sessions' = sessions (+) SetToBag({start(NewSession)})
            /\ last' = [op |-> "accept", ok |-> TRUE, sess |-> View(start(NewSession))]
            /\ logged' = <<>>
       ELSE /\ sessions' = sessions
            /\ last' = [op |-> "accept", ok |-> FALSE, sess |-> View(NewSession)]
            /\ logged' = <<<<"Error", "do_accept">>>>
    /\ acceptOps' = do_accept(acceptOps - 1)
    /\ wire' = <<>>
    /\ UNCHANGED <<endpoints_, cache, enable_cache, files, phase, latest,
                   overwritten, cacheTouched>>

\* a read handler whose write does not keep the session alive: the session is
\* destroyed when the read handler returns, with its write outstanding
ReadHandlerNoSelf(sess, ok, line) ==
    /\ Dispatching(phase)
    /\ BagIn(sess, sessions)
    /\ sess.st = "AwaitingRequestLine"
    /\ sessions' = sessions (-) SetToBag({sess})
    /\ IF ok
       THEN LET r == Route(sess, endpoints_, cache, enable_cache, files, line)
            IN  /\ last' = [op |-> "read", ok |-> TRUE, sess |-> View(Release(r.sess))]
                /\ cache' = r.cache
                /\ logged' = r.log
                /\ cacheTouched' = (cacheTouched \/ r.touched)
       ELSE /\ last' = [op |-> "read", ok |-> FALSE, sess |-> View(Release(sess))]
            /\ logged' = <<<<"Error", "do_read">>>>
            /\ UNCHANGED <<cache, cacheTouched>>
    /\ wire' = <<>>
    /\ UNCHANGED <<endpoints_, enable_cache, files, acceptOps, phase, latest,
                   overwritten>>

\* a read handler that reads again after an error
ReadHandlerRetry(sess, ok, line) ==
    /\ Dispatching(phase)
    /\ BagIn(sess, sessions)
    /\ sess.st = "AwaitingRequestLine"
    /\ IF ok
       THEN LET r == Route(sess, endpoints_, cache, enable_cache, files, line)
            IN  /\ sessions' = Replace(sessions, sess, r.sess)
                /\ last' = [op |-> "read", ok |-> TRUE, sess |-> View(r.sess)]
                /\ cache' = r.cache
                /\ logged' = r.log
                /\ cacheTouched' = (cacheTouched \/ r.touched)
       ELSE /\ sessions' = Replace(sessions, sess, [sess EXCEPT !.reads = 1])
            /\ last' = [op |-> "read", ok |-> FALSE,
                        sess |-> View([sess EXCEPT !.reads = 1])]
            /\ logged' = <<<<"Error", "do_read">>>>
            /\ UNCHANGED <<cache, cacheTouched>>
    /\ wire' = <<>>
    /\ UNCHANGED <<endpoints_, enable_cache, files, acceptOps, phase, latest,
                   overwritten>>

\* the completion handler of async_read_until (HttpSession::do_read)
ReadHandler(sess, ok, line) ==
    /\ Dispatching(phase)
    /\ BagIn(sess, sessions)
    /\ sess.st = "AwaitingRequestLine"
    /\ IF ok
       THEN LET r == Route(sess, endpoints_, cache, enable_cache, files, line)
            IN  /\ sessions' = Replace(sessions, sess, r.sess)
                /\ last' = [op |-> "read", ok |-> TRUE, sess |-> View(r.sess)]
                /\ cache' = r.cache
                /\ logged' = r.log
                /\ cacheTouched' = (cacheTouched \/ r.touched)
       ELSE /\ sessions' = sessions (-) SetToBag({sess})
            /\ last' = [op |-> "read", ok |-> FALSE, sess |-> View(Release(sess))]
            /\ logged' = <<<<"Error", "do_read">>>>
            /\ UNCHANGED <<cache, cacheTouched>>
    /\ wire' = <<>>
    /\ UNCHANGED <<endpoints_, enable_cache, files, acceptOps, phase, latest,
                   overwritten>>

\* a keep-alive write handler: it reads the next request instead of shutting down
WriteHandlerKeepAlive(sess, ok) ==
    /\ Dispatching(phase)
    /\ BagIn(sess, sessions)
    /\ sess.st = "Responding"
    /\ IF ok
       THEN /\ wire' \in Sent(sess, cache)
            /\ sessions' = Replace(sessions, sess, do_read(sess))
            /\ last' = [op |-> "write", ok |-> TRUE, sess |-> View(do_read(sess))]
            /\ logged' = <<>>
       ELSE /\ wire' = <<>>
            /\ sessions' = sessions (-) SetToBag({sess})
            /\ last' = [op |-> "write", ok |-> FALSE, sess |-> View(Release(sess))]
            /\ logged' = <<<<"Error", "do_write">>>>
    /\ UNCHANGED <<endpoints_, cache, enable_cache, files, acceptOps, phase,
                   latest, overwritten, cacheTouched>>

\* the completion handler of async_write (HttpSession::do_write)
WriteHandler(sess, ok) ==
    /\ Dispatching(phase)
    /\ BagIn(sess, sessions)
    /\ sess.st = "Responding"
    /\ sessions' = sessions (-) SetToBag({sess})
    /\ IF ok
       THEN /\ wire' \in Sent(sess, cache)
            /\ last' = [op |-> "write", ok |-> TRUE,
                        sess |-> View(Release(shutdown_both(sess)))]
            /\ logged' = <<>>
       ELSE /\ wire' = <<>>
            /\ last' = [op |-> "write", ok |-> FALSE, sess |-> View(Release(sess))]
            /\ logged' = <<<<"Error", "do_write">>>>
    /\ UNCHANGED <<endpoints_, cache, enable_cache, files, acceptOps, phase,
                   latest, overwritten, cacheTouched>>

\* RESTAPIAPP::RunServer: io_context.run() starts dispatching the completion
\* handlers on the calling thread
RunServer ==
    /\ phase = "constructed"
    /\ phase' = "running"
    /\ last' = NoHandler
    /\ logged' = <<>>
    /\ wire' = <<>>
    /\ UNCHANGED <<endpoints_, cache, enable_cache, files, sessions, acceptOps,
                   latest, overwritten, cacheTouched>>

\* RESTAPIAPP::StopServer: io_context.stop(); every later run() returns at once
StopServer ==
    /\ phase \in {"constructed", "running"}
    /\ phase' = "stopped"
    /\ last' = NoHandler
    /\ logged' = <<<<"Info", "Server stopping">>>>
    /\ wire' = <<>>
    /\ UNCHANGED <<endpoints_, cache, enable_cache, files, sessions, acceptOps,
                   latest, overwritten, cacheTouched>>

\* the environment rewrites, creates or removes the file
FileChange(f) ==
    /\ files[FileName] # f
    /\ files' = [files EXCEPT ![FileName] = f]
    /\ last' = NoHandler
    /\ logged' = <<>>
    /\ wire' = <<>>
    /\ UNCHANGED <<endpoints_, cache, enable_cache, sessions, acceptOps, phase,
                   latest, overwritten, cacheTouched>>

Next ==
    \/ \E reg \in Registrations : AddEndpoint(reg[1], reg[2], reg[3])
    \/ \E ok \in BOOLEAN : AcceptHandler(ok)
    \/ \E sess \in BagToSet(sessions), ok \in BOOLEAN, line \in RequestLines :
          ReadHandler(sess, ok, line)
    \/ \E sess \in BagToSet(sessions), ok \in BOOLEAN : WriteHandler(sess, ok)
    \/ RunServer
    \/ StopServer
    \/ \E f \in FileStates : FileChange(f)

Spec == Init /\ [][Next]_vars

\* the reactor dispatches every completion that is ready, and every read and
\* write issued completes or fails
FairSpec ==
    /\ Spec
    /\ WF_vars(\E sess \in BagToSet(sessions), ok \in BOOLEAN, line \in RequestLines :
                  ReadHandler(sess, ok, line))
    /\ WF_vars(\E sess \in BagToSet(sessions), ok \in BOOLEAN : WriteHandler(sess, ok))

\* an observer starts to follow one of the open sessions; the program does not
\* take this step and nothing of its state changes
Track(sess) ==
    /\ BagIn(sess, sessions)
    /\ \A s \in BagToSet(sessions) : ~s.tracked
    /\ sessions' = Replace(sessions, sess, [sess EXCEPT !.tracked = TRUE])
    /\ last' = NoHandler
    /\ logged' = <<>>
    /\ wire' = <<>>
    /\ UNCHANGED <<endpoints_, cache, enable_cache, files, acceptOps, phase,
                   latest, overwritten, cacheTouched>>

\* the registrations of an application that registers each path once: a literal
\* under GET and a file under POST
OnceRegistrations == {<<"/a", SrcA, "GET">>, <<"/b", SrcFile, "POST">>}

TrackedNext ==
    \/ \E reg \in OnceRegistrations : AddEndpoint(reg[1], reg[2], reg[3])
    \/ \E ok \in BOOLEAN : AcceptHandler(ok)
    \/ \E sess \in BagToSet(sessions), ok \in BOOLEAN, line \in RequestLines :
          ReadHandler(sess, ok, line)
    \/ \E sess \in BagToSet(sessions), ok \in BOOLEAN : WriteHandler(sess, ok)
    \/ RunServer
    \/ StopServer
    \/ \E f \in FileStates : FileChange(f)
    \/ \E sess \in BagToSet(sessions) : Track(sess)

\* every read and write issued completes or fails, for each session by itself:
\* the handlers of the session followed are not postponed for ever
TrackedFairSpec ==
    /\ Init /\ [][TrackedNext]_vars
    /\ WF_vars(\E sess \in BagToSet(sessions), ok \in BOOLEAN, line \in RequestLines :
                  sess.tracked /\ ReadHandler(sess, ok, line))
    /\ WF_vars(\E sess \in BagToSet(sessions), ok \in BOOLEAN :
                  sess.tracked /\ WriteHandler(sess, ok))

\* ------------------------------------------------------- reading a response
Live == BagToSet(sessions)

Responding == {sess \in Live : sess.st = "Responding"}

NotFoundResponse ==
    <<"HTTP/1.1 404 Not Found\r\n", "Content-Length: ", "1", "4", "\r\n\r\n",
      "4", "0", "4", " ", "N", "o", "t", " ", "F", "o", "u", "n", "d", "!">>

Digits == {"0", "1", "2", "3", "4", "5", "6", "7", "8", "9"}

DigitValue(c) == CHOOSE d \in 0..9 : DigitChar(d) = c

RECURSIVE Decimal(_)
Decimal(ds) == IF ds = <<>> THEN 0
               ELSE 10 * Decimal(SubSeq(ds, 1, Len(ds) - 1)) + DigitValue(ds[Len(ds)])

\* the index of the blank line that ends the header, 0 when there is none
HeaderEnd(bytes) ==
    LET ends == {i \in 1..Len(bytes) : bytes[i] = "\r\n\r\n"}
    IN  IF ends = {} THEN 0 ELSE CHOOSE i \in ends : \A j \in ends : i <= j

BodyOf(bytes) == SubSeq(bytes, HeaderEnd(bytes) + 1, Len(bytes))

Is200(bytes) == Len(bytes) > 0 /\ bytes[1] = "HTTP/1.1 200 OK\r\n"

\* the digits that follow the Content-Length field name
ContentLengthDigits(bytes) ==
    LET stop == CHOOSE i \in 3..Len(bytes) :
                    bytes[i] \notin Digits /\ \A j \in 3..(i - 1) : bytes[j] \in Digits
    IN  SubSeq(bytes, 3, stop - 1)

\* a 200 response: status line, Content-Length, Content-Type text/html, blank
\* line, and a body of exactly Content-Length bytes
WellFormed200(bytes) ==
    /\ Is200(bytes)
    /\ HeaderEnd(bytes) > 5
    /\ bytes[2] = "Content-Length: "
    /\ ContentLengthDigits(bytes) # <<>>
    /\ Decimal(ContentLengthDigits(bytes)) = Len(BodyOf(bytes))
    /\ LET n == Len(ContentLengthDigits(bytes))
       IN  /\ HeaderEnd(bytes) = n + 6
           /\ SubSeq(bytes, n + 3, n + 6) =
                  <<"\r\n", "Content-Type: ", "text/html", "\r\n\r\n">>

\* new is the session the read handler has just routed
RoutedNow(new) ==
    /\ last'.op = "read" /\ last'.ok
    /\ new.st = "Responding"
    /\ \E old \in BagToSet(sessions) :
          old.st = "AwaitingRequestLine" /\ sessions' = Replace(sessions, old, new)

\* sess is the session whose write has just completed without error
WrittenNow(sess) ==
    /\ last'.op = "write" /\ last'.ok
    /\ sess.st = "Responding"
    /\ sessions' = sessions (-) SetToBag({sess})

\* the request agrees with the registration made last for its path
Agrees(sess) == sess.path \in DOMAIN latest /\ latest[sess.path].method = sess.method

\* the request was matched by the router
Matched(sess) == Matches(endpoints_, sess.method, sess.path)

\* ---------------------------------------------------------------------- C1
\* C1: with caching enabled, every matched request in flight is answered with
\* the one response cached for its method token; a matched request routed when
\* the cache already holds its token is answered from the cache whatever its
\* path, and the bytes its write delivers are the cached response; an entry of
\* the cache is never replaced or removed.
C1_CachedResponseServed ==
    /\ [](enable_cache =>
            \A sess \in Responding :
               Matched(sess) =>
                  sess.method \in DOMAIN cache /\ sess.response = cache[sess.method])
    /\ [][/\ \A m \in DOMAIN cache : m \in DOMAIN cache' /\ cache'[m] = cache[m]
          /\ \A new \in BagToSet(sessions') :
                (RoutedNow(new) /\ enable_cache /\ Matched(new)
                   /\ new.method \in DOMAIN cache)
                => (new.response = cache[new.method] /\ new.buffer = "cache")
          /\ \A sess \in Live :
                (WrittenNow(sess) /\ sess.buffer = "cache")
                => wire' = cache[sess.method]]_vars

\* a request for a path registered with the literal source "A" is being answered
\* from the cache with a response whose body is not "A"
C1_Witness ==
    \E sess \in Responding :
       /\ enable_cache /\ sess.buffer = "cache"
       /\ sess.path \in DOMAIN latest /\ latest[sess.path].response = SrcA
       /\ Is200(sess.response) /\ BodyOf(sess.response) # SrcA

\* ---------------------------------------------------------------------- C2
\* C2: a request whose path is not registered, or whose method differs from the
\* method registered for its path, is answered with the fixed not-found
\* response.
C2_MismatchIsNotFound ==
    \A sess \in Responding :
       (sess.path \notin DOMAIN latest \/ latest[sess.path].method # sess.method)
       => sess.response = NotFoundResponse

\* ---------------------------------------------------------------------- C3
\* C3: a request whose method token is neither GET nor POST is answered with
\* the not-found response, whatever is registered.
C3_OtherTokenIsNotFound ==
    \A sess \in Responding :
       sess.method \notin {"GET", "POST"} => sess.response = NotFoundResponse

\* ---------------------------------------------------------------------- C4
\* C4: with caching disabled, a request that agrees with a registered (path,
\* method) is answered with a well-formed 200 response whose body is the body
\* resolved from that endpoint's source, and those are the bytes its write
\* delivers.
C4_UncachedMatchReceives200 ==
    [][~enable_cache =>
         /\ \A new \in BagToSet(sessions') :
               (RoutedNow(new) /\ Agrees(new))
               => /\ WellFormed200(new.response)
                  /\ BodyOf(new.response) =
                        getBody(latest[new.path].response, files).content
         /\ \A sess \in Live :
               (WrittenNow(sess) /\ Agrees(sess)) => wire' = sess.response]_vars

\* the same for the response handed to the write only
C4_UncachedMatchRenders200 ==
    [][~enable_cache =>
         \A new \in BagToSet(sessions') :
            (RoutedNow(new) /\ Agrees(new))
            => /\ WellFormed200(new.response)
               /\ BodyOf(new.response) =
                     getBody(latest[new.path].response, files).content]_vars

\* ---------------------------------------------------------------------- C5
\* what the registration made last for the path of new decides about new: a
\* request that agrees with its method is matched, a GET or POST that
\* disagrees with it is not
MatchedOnLatest(new) ==
    LET reg == latest[new.path]
    IN  /\ new.method = reg.method => Is200(new.response)
        /\ (new.method \in RegMethods /\ new.method # reg.method)
              => new.response = NotFoundResponse

\* the 200 response built from the source registered last for the path of new
BuiltFromLatest(new) ==
    new.response = OK(getBody(latest[new.path].response, files).content,
                      DefaultContentType)

\* C5 as stated: a request for a path that was registered again is matched
\* against the method registered last, and every 200 response to it is built
\* from the source registered last.
C5_Original ==
    [][\A new \in BagToSet(sessions') :
          (RoutedNow(new) /\ new.path \in overwritten)
          => /\ MatchedOnLatest(new)
             /\ Is200(new.response) => BuiltFromLatest(new)]_vars

\* C5 amended: a request for a path that was registered again is matched
\* against the method registered last; its 200 response is built from the
\* source registered last when it is rendered afresh (caching disabled, or
\* nothing cached yet for its method token), and is the response cached for
\* its method token otherwise.
C5_LatestRegistrationUnlessCached ==
    [][\A new \in BagToSet(sessions') :
          (RoutedNow(new) /\ new.path \in overwritten)
          => /\ MatchedOnLatest(new)
             /\ Is200(new.response) =>
                  IF enable_cache /\ new.method \in DOMAIN cache
                  THEN new.response = cache[new.method]
                  ELSE BuiltFromLatest(new)]_vars

\* a request for a path registered again, under a method other than the first
\* one's or with another source, is being answered afresh
C5_Witness ==
    \E sess \in Responding :
       /\ sess.path \in overwritten
       /\ sess.buffer = "local"
       /\ Agrees(sess)

\* ---------------------------------------------------------------------- C6
\* C6: a session issues at most one read and at most one write and has no read
\* outstanding once it has written; the handler of a write that completed
\* without error shuts the socket down in both directions and leaves the
\* session closed, with that one read and that one write.
C6_OneExchange ==
    /\ \A sess \in Live :
          /\ sess.reads <= 1 /\ sess.writes <= 1
          /\ sess.st = "AwaitingRequestLine" => sess.writes = 0
          /\ sess.st \in {"AwaitingRequestLine", "Responding"}
    /\ last.op = "read" /\ last.ok
          => last.sess = [st |-> "Responding", reads |-> 1, writes |-> 1,
                          shutdown |-> FALSE]
    /\ last.op = "write" /\ last.ok
          => last.sess = [st |-> "Closed", reads |-> 1, writes |-> 1,
                          shutdown |-> TRUE]

\* a write has just completed without error while another session is open
C6_Witness ==
    /\ last.op = "write" /\ last.ok /\ last.sess.shutdown
    /\ wire # <<>>
    /\ Live # {}

\* ---------------------------------------------------------------------- C7
\* C7: the cache never holds more than two entries.
C7_AtMostTwoEntries == Cardinality(DOMAIN cache) <= 2

C9_AcceptRearmed ==
    /\ [](phase = "running" => acceptOps = 1)
    /\ [][last'.op = "accept" =>
            /\ acceptOps' = 1
            /\ IF last'.ok
               THEN /\ sessions' = sessions (+) SetToBag({[NewSession EXCEPT !.reads = 1]})
                    /\ BagCardinality(sessions') = BagCardinality(sessions) + 1
               ELSE /\ sessions' = sessions
                    /\ \E i \in 1..Len(logged') : logged'[i][1] = "Error"]_vars

\* an accept has just failed, after one that created a session
C9_Witness ==
    /\ last.op = "accept" /\ ~last.ok
    /\ acceptOps = 1
    /\ Live # {}
    /\ logged = <<<<"Error", "do_accept">>>>

\* --------------------------------------------------------------------- C10
\* C10: with caching disabled the cache is never consulted and stays empty, and
\* every matched request is answered with the 200 response resolved from the
\* source of its own path.
C10_CacheUntouchedWhenDisabled ==
    /\ [](~enable_cache => (DOMAIN cache = {} /\ ~cacheTouched))
    /\ [][~enable_cache =>
            \A new \in BagToSet(sessions') :
               (RoutedNow(new) /\ Matched(new))
               => /\ new.buffer = "local"
                  /\ new.response =
                       OK(getBody(endpoints_[new.path].response, files).content,
                          DefaultContentType)]_vars

\* with caching disabled, a second matched request of the same method token is
\* in flight beside a first one for the other path
C10_Witness ==
    /\ ~enable_cache
    /\ \E s1, s2 \in Responding :
          /\ Matched(s1) /\ Matched(s2)
          /\ s1.method = s2.method /\ s1.path # s2.path

\* --------------------------------------------------------------------- C11
\* the response source is a file reference
IsFileSource(str) == substr(str, 0, Len(filePrefix)) = filePrefix

\* the 200 response with an empty body
EmptyBodyResponse ==
    <<"HTTP/1.1 200 OK\r\n", "Content-Length: ", "0", "\r\n", "Content-Type: ",
      "text/html", "\r\n\r\n">>

\* new was matched on an endpoint whose source names a file that cannot be
\* opened in the state the request is routed in
MatchedOnUnopenableFile(new) ==
    /\ RoutedNow(new)
    /\ Matched(new)
    /\ IsFileSource(endpoints_[new.path].response)
    /\ ~files[suffix(endpoints_[new.path].response, Len(filePrefix))].open

\* C11 as stated: a matched request for a file-backed endpoint whose file
\* cannot be opened logs an Error and is answered with the 200 response with an
\* empty body.
C11_Original ==
    [][\A new \in BagToSet(sessions') :
          MatchedOnUnopenableFile(new)
          => /\ new.response = EmptyBodyResponse
             /\ \E i \in 1..Len(logged') : logged'[i][1] = "Error"]_vars

\* C11 amended: a matched request for a file-backed endpoint whose file cannot
\* be opened, when it is rendered afresh (caching disabled, or nothing cached
\* yet for its method token), logs an Error, and its one write is issued with
\* the 200 response with an empty body and Content-Length 0; when a response
\* is cached for its method token the file is not opened, nothing is logged at
\* Error and the cached response is written.  Either way the handler of the
\* write, when it completes without error, shuts the socket down and leaves
\* the session closed.
C11_UnopenableFileFallback ==
    /\ [][\A new \in BagToSet(sessions') :
             MatchedOnUnopenableFile(new)
             => /\ new.st = "Responding" /\ new.writes = 1
                /\ IF enable_cache /\ new.method \in DOMAIN cache
                   THEN /\ new.response = cache[new.method]
                        /\ \A i \in 1..Len(logged') : logged'[i][1] # "Error"
                   ELSE /\ new.response = EmptyBodyResponse
                        /\ WellFormed200(new.response)
                        /\ BodyOf(new.response) = <<>>
                        /\ logged' = <<<<"Error", "Can not open file">>,
                                       <<"Info", "responsing">>>>]_vars
    /\ [][\A sess \in Live :
             (WrittenNow(sess) /\ sess.response = EmptyBodyResponse)
             => last'.sess = [st |-> "Closed", reads |-> 1, writes |-> 1,
                              shutdown |-> TRUE]]_vars

\* the write of an empty-body 200 response, rendered afresh for the file-backed
\* path while the file could not be opened, has just completed without error
C11_Witness ==
    /\ last.op = "write" /\ last.ok /\ last.sess.shutdown
    /\ wire = EmptyBodyResponse
    /\ ~files[FileName].open
    /\ ~enable_cache

\* --------------------------------------------------------------------- C12
\* what the file named by a file reference holds: its content, nothing when it
\* cannot be opened
ContentNow(str, fs) ==
    LET f == fs[suffix(str, Len(filePrefix))]
    IN  IF f.open THEN f.content ELSE <<>>

\* the request was rendered afresh for a file-backed endpoint
FreshFromFile(sess) ==
    /\ Matched(sess)
    /\ sess.buffer = "local"
    /\ IsFileSource(endpoints_[sess.path].response)

\* C12: a matched request for a file-backed endpoint that is not answered from
\* the cache is rendered with the content the file has in the state the request
\* is routed in, whatever the file held when the endpoint was registered or
\* when an earlier request was routed.
C12_FileReadAtRequestTime ==
    [][\A new \in BagToSet(sessions') :
          (/\ RoutedNow(new)
           /\ Matched(new)
           /\ ~(enable_cache /\ new.method \in DOMAIN cache)
           /\ IsFileSource(endpoints_[new.path].response))
          => /\ new.buffer = "local"
             /\ WellFormed200(new.response)
             /\ BodyOf(new.response) = ContentNow(endpoints_[new.path].response, files)]_vars

\* two requests for the same file-backed endpoint, both rendered afresh, are in
\* flight: one routed before the file was written, with an empty body, and one
\* routed after, with the content written
C12_Witness ==
    \E s1, s2 \in Responding :
       /\ FreshFromFile(s1) /\ FreshFromFile(s2)
       /\ s1.path = s2.path /\ s1.method = s2.method
       /\ BodyOf(s1.response) = <<>>
       /\ BodyOf(s2.response) = LongContent
       /\ files[FileName].open

\* --------------------------------------------------------------------- C13
\* C13: constructing the application never ends with an exception in the code
\* that constructs it: a bind failure is logged at Critical and goes no further.
C13_StartNeverRaises ==
    /\ phase # "threw"
    /\ acceptOps = 0 => \E i \in 1..Len(logged) : logged[i][1] = "Critical"

\* --------------------------------------------------------------------- C14
\* the order of the states of a session; Routed is the point of the read handler
\* at which the branch has been chosen and the write is not issued yet
StateOrder == <<"AwaitingRequestLine", "Routed", "Responding", "Closed">>

Rank(st) == CHOOSE i \in 1..Len(StateOrder) : StateOrder[i] = st

Branches == {"cached", "fresh", "notfound"}

\* C14: a session is created awaiting its request line; one step either takes
\* it from AwaitingRequestLine through routing to Responding, or from
\* AwaitingRequestLine or Responding to Closed, always upwards in the order of
\* the states; a session that responds has read its request line and chosen
\* its branch; a closed session is gone and nothing acts on it again.
C14_ForwardOnly ==
    /\ [](\A sess \in Live :
             /\ sess.st \in {"AwaitingRequestLine", "Responding"}
             /\ sess.st = "AwaitingRequestLine"
                   => (sess.branch = "none" /\ sess.writes = 0)
             /\ sess.st = "Responding"
                   => (sess.branch \in Branches /\ sess.reads = 1 /\ sess.writes = 1))
    /\ [][\/ sessions' = sessions
          \/ /\ last'.op = "accept"
             /\ sessions' = sessions (+) SetToBag({[NewSession EXCEPT !.reads = 1]})
             /\ last'.sess.st = "AwaitingRequestLine"
          \/ \E old \in Live, new \in BagToSet(sessions') :
                /\ last'.op = "read" /\ last'.ok
                /\ sessions' = Replace(sessions, old, new)
                /\ old.st = "AwaitingRequestLine" /\ new.st = "Responding"
                /\ new.branch \in Branches
                /\ Rank(old.st) < Rank("Routed") /\ Rank("Routed") < Rank(new.st)
          \/ \E old \in Live :
                /\ last'.op \in {"read", "write"}
                /\ sessions' = sessions (-) SetToBag({old})
                /\ last'.sess.st = "Closed"
                /\ Rank(old.st) < Rank(last'.sess.st)]_vars

\* a session has just been closed by its write handler while another one,
\* answered from the cache, is responding
C14_Witness ==
    /\ last.op = "write" /\ last.sess.st = "Closed"
    /\ \E sess \in Responding : sess.branch = "cached"

\* --------------------------------------------------------------------- C15
\* C15: the handler of a read or write that failed logs an Error and nothing
\* else, issues no read and no write and delivers no bytes (after a failed read
\* the session has written nothing); when it returns nothing holds the session,
\* which is destroyed, closing its socket, in that same step: it leaves the open
\* sessions, and the others are left as they are.
C15_ErrorClosesSession ==
    /\ []((last.op = "read" /\ ~last.ok)
            => /\ last.sess = [st |-> "Closed", reads |-> 1, writes |-> 0,
                               shutdown |-> FALSE]
               /\ logged = <<<<"Error", "do_read">>>>
               /\ wire = <<>>)
    /\ []((last.op = "write" /\ ~last.ok)
            => /\ last.sess = [st |-> "Closed", reads |-> 1, writes |-> 1,
                               shutdown |-> FALSE]
               /\ logged = <<<<"Error", "do_write">>>>
               /\ wire = <<>>)
    /\ [][(last'.op \in {"read", "write"} /\ ~last'.ok)
            => \E sess \in Live :
                  /\ sess.st = (IF last'.op = "read" THEN "AwaitingRequestLine"
                                ELSE "Responding")
                  /\ sessions' = sessions (-) SetToBag({sess})
                  /\ BagCardinality(sessions') = BagCardinality(sessions) - 1
                  /\ cache' = cache]_vars

\* a read has just failed while another session is responding
C15_Witness ==
    /\ last.op = "read" /\ ~last.ok
    /\ last.sess.st = "Closed"
    /\ Responding # {}

\* --------------------------------------------------------------------- C16
\* C16: a request whose path is not registered, or whose method differs from
\* the method registered for its path, is answered with the not-found response
\* and receives it, also when the cache holds an entry for its method token;
\* every value of the cache is a 200 response.
C16_RouteBeforeCache ==
    /\ [](\A m \in DOMAIN cache : Is200(cache[m]) /\ cache[m] # NotFoundResponse)
    /\ [][/\ \A new \in BagToSet(sessions') :
                (RoutedNow(new) /\ ~Agrees(new))
                => (new.response = NotFoundResponse /\ cache' = cache)
          /\ \A sess \in Live :
                (WrittenNow(sess) /\ ~Agrees(sess)) => wire' = NotFoundResponse]_vars

\* the part of C16 that is about the order of the two tests: a request the
\* router does not match is answered with the not-found response whatever the
\* cache holds, and leaves the cache as it is
C16_UnmatchedNeverCached ==
    [][\A new \in BagToSet(sessions') :
          (RoutedNow(new) /\ ~Matched(new))
          => (new.response = NotFoundResponse /\ cache' = cache)]_vars

\* --------------------------------------------------------------------- C17
\* C17: the bytes a write delivers are the response chosen when the request was
\* routed, for a session of any of the three branches.
C17_WriteDeliversResponse ==
    [][\A sess \in Live : WrittenNow(sess) => wire' = sess.response]_vars

\* the same for the sessions answered from the cache only, whose buffer views
\* the string the cache owns
C17_CachedWriteDeliversResponse ==
    [][\A sess \in Live :
          (WrittenNow(sess) /\ sess.branch = "cached") => wire' = sess.response]_vars

\* --------------------------------------------------------------------- C18
\* C18: with caching enabled, the lookup and the insert of a request rendered
\* afresh are one step: the request finds nothing cached for its method token
\* in the state it is routed in, and its response is the entry of that token
\* in the next state, so that no later request of the token is rendered afresh;
\* no step changes an entry or the cache another way; and of the requests in
\* flight at most one per method token was rendered afresh, the others of that
\* token being answered with its response.
C18_LookupAndInsertAtomic ==
    /\ [](enable_cache =>
            \A s1 \in Responding :
               s1.branch = "fresh" =>
                  /\ s1.method \in DOMAIN cache /\ cache[s1.method] = s1.response
                  /\ CopiesIn(s1, sessions) = 1
                  /\ \A s2 \in Responding :
                        (s2.method = s1.method /\ s2.branch = "fresh") => s2 = s1)
    /\ [][enable_cache =>
            /\ \A new \in BagToSet(sessions') :
                  (RoutedNow(new) /\ new.branch = "fresh")
                  => /\ new.method \notin DOMAIN cache
                     /\ cache' = [m \in DOMAIN cache \cup {new.method} |->
                                     IF m = new.method THEN new.response ELSE cache[m]]
            /\ cache' # cache
                  => \E new \in BagToSet(sessions') :
                        RoutedNow(new) /\ new.branch = "fresh"]_vars

\* two requests of one method token are in flight, the first rendered afresh
\* and the second, for the other path, answered from the cache with the first
\* one's response
C18_Witness ==
    /\ enable_cache
    /\ \E s1, s2 \in Responding :
          /\ s1.branch = "fresh" /\ s2.branch = "cached"
          /\ s1.method = s2.method /\ s1.path # s2.path
          /\ s2.response = s1.response

\* --------------------------------------------------------------------- C19
Tracked == {sess \in Live : sess.tracked}

\* C19: while the server is not stopped, a session, whichever is followed,
\* is eventually closed and released; a session leaves the open sessions only
\* in the step of its own handler, the handler of the one operation it had
\* outstanding (its read, failed, with no write issued, or its write), which
\* leaves it Closed.
C19_SessionsReleased ==
    /\ (Tracked # {}) ~> (Tracked = {} \/ phase = "stopped")
    /\ [][\A sess \in Live :
             sessions' = sessions (-) SetToBag({sess})
             => /\ last'.sess.st = "Closed"
                /\ \/ /\ last'.op = "read" /\ ~last'.ok
                      /\ sess.st = "AwaitingRequestLine"
                      /\ sess.reads = 1 /\ sess.writes = 0
                   \/ /\ last'.op = "write"
                      /\ sess.st = "Responding"
                      /\ sess.reads = 1 /\ sess.writes = 1]_vars

\* the session followed is responding while another one awaits its request line
C19_Witness ==
    /\ phase = "running"
    /\ \E s1, s2 \in Live :
          /\ s1.tracked /\ s1.st = "Responding"
          /\ ~s2.tracked /\ s2.st = "AwaitingRequestLine"

\* --------------------------------------------------------------------- C20
\* C20: with caching enabled, a matched request that finds nothing cached for
\* its method token and resolves a file that cannot be opened leaves the 200
\* response with an empty body as the entry of that token; while that is the
\* entry, it stays, every matched request of the token is answered with it from
\* the cache, whatever its path and whatever the file holds by then, and those
\* are the bytes its write delivers.
C20_EmptyBodyCached ==
    /\ [][enable_cache =>
            \A new \in BagToSet(sessions') :
               (MatchedOnUnopenableFile(new) /\ new.method \notin DOMAIN cache)
               => /\ new.response = EmptyBodyResponse
                  /\ new.method \in DOMAIN cache'
                  /\ cache'[new.method] = EmptyBodyResponse]_vars
    /\ [][enable_cache =>
            \A m \in DOMAIN cache :
               cache[m] = EmptyBodyResponse
               => /\ m \in DOMAIN cache' /\ cache'[m] = EmptyBodyResponse
                  /\ \A new \in BagToSet(sessions') :
                        (RoutedNow(new) /\ Matched(new) /\ new.method = m)
                        => (new.response = EmptyBodyResponse /\ new.buffer = "cache")
                  /\ \A sess \in Live :
                        (WrittenNow(sess) /\ sess.branch = "cached" /\ sess.method = m)
                        => wire' = EmptyBodyResponse]_vars

\* the file is readable, and a request for the path with the literal source is
\* being answered from the cache with the empty-body response
C20_Witness ==
    /\ enable_cache
    /\ files[FileName].open
    /\ \E sess \in Responding :
          /\ sess.branch = "cached"
          /\ endpoints_[sess.path].response = SrcA
          /\ sess.response = EmptyBodyResponse
          /\ cache[sess.method] = EmptyBodyResponse
====
